---- MODULE Spec2Model ----
(***************************************************************************)
(* A model of blitzutils: the WoTinspector replay client                   *)
(* (src/wotinspector.py) and the replay / tank-stat data models            *)
(* (src/models.py).                                                        *)
(*                                                                         *)
(* Four specifications share the module's variables:                       *)
(*   Spec / FairSpec  the client: get_replay and post_replay               *)
(*   SpecReplay       WoTBlitzReplayJSON.get_battle_result / get_platoons  *)
(*   SpecTank         WGtankStat.mk_id / WGtankStat.set_id                 *)
(*   SpecData         WoTBlitzReplayData.store_id                          *)
(***************************************************************************)
EXTENDS Integers, Sequences, FiniteSets, TLC

VARIABLES
    \* ---- WoTinspector client -------------------------------------------
    REPLAY_N,     \* WoTinspector.REPLAY_N, the upload sequence counter
    calls,        \* how many calls of the client's methods were started
    remote,       \* the records the hosting service holds
    pc,           \* per call: where the post_replay coroutine stands
    data,         \* per call: the data argument
    N,            \* per call: the diagnostic label
    replay_id,    \* per call: the md5 hex digest of data
    get_out,      \* per call: what get_url_JSON_model did in a direct get_replay
    json_resp,    \* per call: what get_replay returned
    retry,        \* per call: the loop variable of the retry loop
    last,         \* per call: the outcome of the latest upload POST
    posts,        \* per call: the keys of the upload POSTs issued, in order
    replay,       \* per call: the local variable replay
    ret,          \* per call: the value post_replay returned
    exc,          \* per call: TRUE when an exception left the call
    \* ---- WoTBlitzReplayJSON queries ------------------------------------
    summary,      \* data.summary: battle_result, winner_team, rosters, details
    player,       \* the player argument
    result,       \* what get_battle_result returned
    platoons,     \* what get_platoons returned (or the error it raised)
    \* ---- WGtankStat ----------------------------------------------------
    payload,      \* the fields handed to WGtankStat(...)
    oid,          \* what WGtankStat.mk_id did on the payload's triple
    tankstat,     \* the constructed record (or the validation error)
    \* ---- WoTBlitzReplayData --------------------------------------------
    rargs,        \* the latest operation on the replay data and its arguments
    rdata,        \* the replay data object: id, view_url, download_url
    \* ---- WoTBlitzReplayJSON identifiers --------------------------------
    jargs,        \* the latest operation on the replay record and its arguments
    rjson,        \* the replay record: id and the wrapped data object
    \* ---- Region --------------------------------------------------------
    account,      \* the account_id argument of Region.from_id
    region        \* what Region.from_id returned

clientVars == <<REPLAY_N, calls, remote, pc, data, N, replay_id, get_out, json_resp,
                retry, last, posts, replay, ret, exc>>
replayVars == <<summary, player, result, platoons>>
tankVars   == <<payload, oid, tankstat>>
dataVars   == <<rargs, rdata>>
jsonVars   == <<jargs, rjson>>
regionVars == <<account, region>>
vars       == <<clientVars, replayVars, tankVars, dataVars, jsonVars, regionVars>>

-----------------------------------------------------------------------------
(* Python's None, for values that are records.                             *)
None == [kind |-> "None"]

(***************************************************************************)
(*                       src/wotinspector.py                               *)
(***************************************************************************)

\* Bounds of the client model.
MaxCalls == 2     \* get_replay and post_replay calls started in one run

MAX_RETRIES == 3
REPLAY_N_0  == 1

Calls == {1, 2}                         \* concurrent callers on one client

\* The data argument: two byte strings, and a value that is not bytes-like
\* (hash.update raises TypeError on it).
Bytes    == [bytes : {TRUE}, b : {"replay-a", "replay-b"}]
NotBytes == [bytes |-> FALSE, b |-> "a str"]
DataArgs == Bytes \cup {NotBytes}

\* md5(data).hexdigest(): a deterministic function of the bytes, and on
\* this small domain distinct bytes have distinct digests.
hexdigest_per_call(d) == [md5 |-> d.b, n |-> REPLAY_N]

hexdigest(d) == [md5 |-> d.b]
Digests == {hexdigest(d) : d \in Bytes}

\* A replay record as the service serves it: its key, and which upload
\* created it.
Records == [kind : {"Replay"}, key : Digests, by : 1..MaxCalls]


\* WoTBlitzReplayJSON.from_str: the parsed record, or None when the body is
\* not a valid replay (both except branches return None).
Garbage == [kind |-> "Garbage"]
from_str(body) == IF body \in Records THEN body ELSE None

\* What get_url_JSON_model can do inside get_replay for key id: hand back a
\* record the service holds under that key, hand back None (not found,
\* transport error or unparsable body), or raise.
GetOutcomes(id) ==
    {[kind |-> "model", rec |-> r] : r \in {x \in remote : x.key = id}}
        \cup {[kind |-> "model", rec |-> None], [kind |-> "raise", rec |-> None]}

\* get_replay: value is what it returns, raised tells whether an exception
\* leaves it.
get_replay_unguarded(out) ==
    IF out.kind = "raise"
    THEN [value |-> None, raised |-> TRUE]
    ELSE [value |-> out.rec, raised |-> FALSE]

get_replay(out) ==
    IF out.kind = "raise"
    THEN [value |-> None, raised |-> FALSE]
    ELSE [value |-> out.rec, raised |-> FALSE]

\* What one upload POST can do: answer with a status and a body, or raise.
\* A 200 answer carries the record the service made and now holds for the
\* key, or a body that is no replay.
PostOutcomes(c) ==
    LET rec == [kind |-> "Replay", key |-> replay_id[c], by |-> N[c]]
    IN  {[kind |-> "resp", status |-> 200, body |-> rec],
         [kind |-> "resp", status |-> 200, body |-> Garbage],
         [kind |-> "resp", status |-> 500, body |-> Garbage],
         [kind |-> "raise", status |-> 0, body |-> Garbage]}

\* One pass of the retry loop's body, lines 110-123: returned tells whether
\* the return statement of line 118 ran, raised whether an exception leaves
\* the try statement of line 110.
post_attempt_keep_going(out, old) ==
    IF out.kind = "resp" /\ out.status = 200
    THEN [replay |-> from_str(out.body), returned |-> FALSE, raised |-> FALSE]
    ELSE [replay |-> old, returned |-> FALSE, raised |-> FALSE]

post_attempt(out, old) ==
    IF out.kind = "resp" /\ out.status = 200
    THEN [replay |-> from_str(out.body), returned |-> from_str(out.body) # None,
          raised |-> FALSE]
    ELSE [replay |-> old, returned |-> FALSE, raised |-> FALSE]

\* Line 87: the existence check found the replay.
already_uploaded_never(resp) == FALSE

already_uploaded(resp) == resp # None

\* The loop condition of `for retry in range(self.MAX_RETRIES)`.
more_retries(r) == r < MAX_RETRIES

ClientInit ==
    /\ REPLAY_N = REPLAY_N_0
    /\ calls = 0
    /\ remote = {}
    /\ pc = [c \in Calls |-> "idle"]
    /\ data = [c \in Calls |-> NotBytes]
    /\ N = [c \in Calls |-> 0]
    /\ replay_id = [c \in Calls |-> None]
    /\ get_out = [c \in Calls |-> None]
    /\ json_resp = [c \in Calls |-> None]
    /\ retry = [c \in Calls |-> 0]
    /\ last = [c \in Calls |-> None]
    /\ posts = [c \in Calls |-> <<>>]
    /\ replay = [c \in Calls |-> None]
    /\ ret = [c \in Calls |-> None]
    /\ exc = [c \in Calls |-> FALSE]

OthersIdle == UNCHANGED <<replayVars, tankVars, dataVars, jsonVars, regionVars>>

Resting(c) == pc[c] \in {"idle", "done", "got"}

\* A fresh call frame for caller c.
Frame(c) ==
    /\ get_out' = [get_out EXCEPT ![c] = None]
    /\ json_resp' = [json_resp EXCEPT ![c] = None]
    /\ retry' = [retry EXCEPT ![c] = 0]
    /\ last' = [last EXCEPT ![c] = None]
    /\ posts' = [posts EXCEPT ![c] = <<>>]
    /\ replay' = [replay EXCEPT ![c] = None]
    /\ ret' = [ret EXCEPT ![c] = None]
    /\ exc' = [exc EXCEPT ![c] = FALSE]

\* await get_replay(id), called directly.
GetReplay(c) ==
    /\ Resting(c)
    /\ calls < MaxCalls
    /\ calls' = calls + 1
    /\ \E id \in Digests : \E out \in GetOutcomes(id) :
         LET r == get_replay(out) IN
         /\ pc' = [pc EXCEPT ![c] = "got"]
         /\ replay_id' = [replay_id EXCEPT ![c] = id]
         /\ get_out' = [get_out EXCEPT ![c] = out]
         /\ json_resp' = [json_resp EXCEPT ![c] = r.value]
         /\ ret' = [ret EXCEPT ![c] = r.value]
         /\ exc' = [exc EXCEPT ![c] = r.raised]
         /\ retry' = [retry EXCEPT ![c] = 0]
         /\ last' = [last EXCEPT ![c] = None]
         /\ posts' = [posts EXCEPT ![c] = <<>>]
         /\ replay' = [replay EXCEPT ![c] = None]
    /\ UNCHANGED <<REPLAY_N, remote, data, N>>
    /\ OthersIdle

\* post_replay, lines 77-83 (and 103-105 when hashing raises).
PostReplayBegin(c) ==
    /\ Resting(c)
    /\ calls < MaxCalls
    /\ calls' = calls + 1
    /\ \E d \in DataArgs :
         /\ data' = [data EXCEPT ![c] = d]
         /\ IF d.bytes
            THEN /\ replay_id' = [replay_id EXCEPT ![c] = hexdigest(d)]
                 /\ pc' = [pc EXCEPT ![c] = "check"]
            ELSE /\ replay_id' = [replay_id EXCEPT ![c] = None]
                 /\ pc' = [pc EXCEPT ![c] = "done"]
    /\ N' = [N EXCEPT ![c] = REPLAY_N]
    /\ REPLAY_N' = REPLAY_N + 1
    /\ Frame(c)
    /\ UNCHANGED remote
    /\ OthersIdle

\* post_replay, lines 86-107: the existence check, then the upload's
\* parameters.  An exception leaving get_replay would be caught at line 103.
PostReplayCheck(c) ==
    /\ pc[c] = "check"
    /\ \E out \in GetOutcomes(replay_id[c]) :
         LET r == get_replay(out) IN
         /\ json_resp' = [json_resp EXCEPT ![c] = r.value]
         /\ IF r.raised
            THEN /\ pc' = [pc EXCEPT ![c] = "done"]
                 /\ ret' = [ret EXCEPT ![c] = None]
            ELSE IF already_uploaded(r.value)
            THEN /\ pc' = [pc EXCEPT ![c] = "done"]
                 /\ ret' = [ret EXCEPT ![c] = r.value]
            ELSE /\ pc' = [pc EXCEPT ![c] = "post"]
                 /\ ret' = ret
    /\ retry' = [retry EXCEPT ![c] = 0]
    /\ replay' = [replay EXCEPT ![c] = None]
    /\ UNCHANGED <<REPLAY_N, calls, remote, data, N, replay_id, get_out, last, posts, exc>>
    /\ OthersIdle

\* post_replay, lines 108-123: one upload attempt.
PostReplayAttempt(c) ==
    /\ pc[c] = "post"
    /\ \E out \in PostOutcomes(c) :
         LET r == post_attempt(out, replay[c])
             rec == [kind |-> "Replay", key |-> replay_id[c], by |-> N[c]]
         IN
         /\ posts' = [posts EXCEPT ![c] = Append(@, replay_id[c])]
         /\ last' = [last EXCEPT ![c] = out]
         /\ remote' = IF out.body = rec THEN remote \cup {rec} ELSE remote
         /\ replay' = [replay EXCEPT ![c] = r.replay]
         /\ IF r.raised
            THEN /\ pc' = [pc EXCEPT ![c] = "done"]
                 /\ ret' = ret
                 /\ exc' = [exc EXCEPT ![c] = TRUE]
            ELSE IF r.returned
            THEN /\ pc' = [pc EXCEPT ![c] = "done"]
                 /\ ret' = [ret EXCEPT ![c] = r.replay]
                 /\ exc' = exc
            ELSE /\ pc' = [pc EXCEPT ![c] = "sleep"]
                 /\ ret' = ret
                 /\ exc' = exc
    /\ UNCHANGED <<REPLAY_N, calls, data, N, replay_id, get_out, json_resp, retry>>
    /\ OthersIdle

\* post_replay, line 124, then the loop's next pass or lines 126-127.
PostReplaySleep(c) ==
    /\ pc[c] = "sleep"
    /\ retry' = [retry EXCEPT ![c] = @ + 1]
    /\ IF more_retries(retry[c] + 1)
       THEN /\ pc' = [pc EXCEPT ![c] = "post"]
            /\ ret' = ret
       ELSE /\ pc' = [pc EXCEPT ![c] = "done"]
            /\ ret' = [ret EXCEPT ![c] = replay[c]]
    /\ UNCHANGED <<REPLAY_N, calls, remote, data, N, replay_id, get_out, json_resp,
                   last, posts, replay, exc>>
    /\ OthersIdle

Running(c) == PostReplayCheck(c) \/ PostReplayAttempt(c) \/ PostReplaySleep(c)

(***************************************************************************)
(*            src/models.py: WoTBlitzReplayJSON's queries                  *)
(***************************************************************************)

\* Bounds of the replay model.
MaxPlayer == 3    \* account ids 1..MaxPlayer
MaxSquad  == 1    \* platoon indices 0..MaxSquad

Players == 1..MaxPlayer

\* Optional[int]: the player argument, and a detail row's squad_index.
NoInt      == [some |-> FALSE, v |-> 0]
SomeInt(n) == [some |-> TRUE, v |-> n]
OptPlayers == {NoInt} \cup {SomeInt(n) : n \in Players}
OptSquads  == {NoInt} \cup {SomeInt(n) : n \in 0..MaxSquad}

\* The members of EnumWinnerTeam and EnumBattleResult, by name; both fields
\* of the summary are Optional, "None" stands for None.
EnumWinnerTeam   == {"draw", "one", "two"}
EnumBattleResult == {"incomplete", "not_win", "win", "loss", "draw"}
NoEnum           == "None"

\* x in list
In(x, list) == \E i \in DOMAIN list : list[i] = x

\* The list, in ascending order, of the ids of set S.
RECURSIVE ListOf(_)
ListOf(S) ==
    IF S = {} THEN <<>>
    ELSE LET m == CHOOSE x \in S : \A y \in S : x <= y
         IN  <<m>> \o ListOf(S \ {m})

\* The rosters: every account is an ally, an enemy, or not in the battle.
Rosters ==
    {[allies |-> ListOf({q \in Players : side[q] = "a"}),
      enemies |-> ListOf({q \in Players : side[q] = "e"})] :
        side \in [Players -> {"a", "e", "-"}]}

\* The details: at most one WoTBlitzReplayDetail per account, in order of
\* dbid; an account's row carries squad_index None or 0..MaxSquad.
Absent == [some |-> FALSE, v |-> -1]

RECURSIVE DetailRows(_, _)
DetailRows(row, S) ==
    IF S = {} THEN <<>>
    ELSE LET m == CHOOSE x \in S : \A y \in S : x <= y
         IN  (IF row[m] = Absent THEN <<>>
              ELSE <<[dbid |-> m, squad_index |-> row[m]]>>)
             \o DetailRows(row, S \ {m})

Details == {DetailRows(row, Players) : row \in [Players -> OptSquads \cup {Absent}]}

\* The summaries queried: every battle_result and winner_team over every
\* pair of rosters, and every list of details over every pair of rosters.
Summaries ==
    {[battle_result |-> br, winner_team |-> wt,
      allies |-> r.allies, enemies |-> r.enemies, details |-> <<>>] :
        br \in EnumBattleResult \cup {NoEnum},
        wt \in EnumWinnerTeam \cup {NoEnum},
        r \in Rosters}
    \cup
    {[battle_result |-> "not_win", winner_team |-> "two",
      allies |-> r.allies, enemies |-> r.enemies, details |-> d] :
        r \in Rosters, d \in Details}

ValueError == [kind |-> "ValueError"]
Unset      == [kind |-> "unset"]

\* get_enemies(player) and get_allies(player), lines 352-367: the list
\* returned, or raised when the ValueError is raised.
get_enemies(s, p) ==
    IF ~p.some \/ In(p.v, s.allies) THEN [raised |-> FALSE, value |-> s.enemies]
    ELSE IF In(p.v, s.enemies) THEN [raised |-> FALSE, value |-> s.allies]
    ELSE [raised |-> TRUE, value |-> <<>>]

get_allies(s, p) ==
    IF ~p.some \/ In(p.v, s.allies) THEN [raised |-> FALSE, value |-> s.allies]
    ELSE IF In(p.v, s.enemies) THEN [raised |-> FALSE, value |-> s.enemies]
    ELSE [raised |-> TRUE, value |-> <<>>]

\* defaultdict(list): d[k].append(x)
DictAppend(d, k, x) ==
    [i \in DOMAIN d \cup {k} |->
        IF i = k THEN (IF k \in DOMAIN d THEN d[k] ELSE <<>>) \o <<x>> ELSE d[i]]

EmptyDict == [i \in {} |-> <<>>]

\* One pass of the loop of get_platoons, lines 382-387, on row d.
platoon_row(acc, d, allies) ==
    IF d.squad_index.some /\ d.squad_index.v > 0
    THEN IF In(d.dbid, allies)
         THEN [acc EXCEPT !.allied = DictAppend(@, d.squad_index.v, d.dbid)]
         ELSE [acc EXCEPT !.enemy = DictAppend(@, d.squad_index.v, d.dbid)]
    ELSE acc

RECURSIVE platoon_loop(_, _, _)
platoon_loop(acc, rows, allies) ==
    IF rows = <<>> THEN acc
    ELSE platoon_loop(platoon_row(acc, Head(rows), allies), Tail(rows), allies)

\* get_platoons(player), lines 374-389.
get_platoons(s, p) ==
    LET allies == get_allies(s, p) IN
    IF allies.raised THEN ValueError
    ELSE platoon_loop([kind |-> "platoons", allied |-> EmptyDict, enemy |-> EmptyDict],
                      s.details, allies.value)

\* get_battle_result(player), lines 392-416.
get_battle_result_draw_first(s, p) ==
    IF s.battle_result = "incomplete" THEN "incomplete"
    ELSE IF p.some /\ In(p.v, get_enemies(s, NoInt).value)
    THEN IF s.winner_team = "draw" THEN "draw"
         ELSE IF s.battle_result = "win" THEN "loss"
         ELSE "win"
    ELSE IF ~p.some \/ In(p.v, get_allies(s, NoInt).value)
    THEN IF s.winner_team = "draw" THEN "draw"
         ELSE IF s.battle_result = "win" THEN "win"
         ELSE "loss"
    ELSE "incomplete"

get_battle_result_enemy_no_draw(s, p) ==
    IF s.battle_result = "incomplete" THEN "incomplete"
    ELSE IF p.some /\ In(p.v, get_enemies(s, NoInt).value)
    THEN IF s.battle_result = "win" THEN "loss"
         ELSE "win"
    ELSE IF ~p.some \/ In(p.v, get_allies(s, NoInt).value)
    THEN IF s.battle_result = "win" THEN "win"
         ELSE IF s.winner_team = "draw" THEN "draw"
         ELSE "loss"
    ELSE "incomplete"

get_battle_result(s, p) ==
    IF s.battle_result = "incomplete" THEN "incomplete"
    ELSE IF p.some /\ In(p.v, get_enemies(s, NoInt).value)
    THEN IF s.battle_result = "win" THEN "loss"
         ELSE IF s.winner_team = "draw" THEN "draw"
         ELSE "win"
    ELSE IF ~p.some \/ In(p.v, get_allies(s, NoInt).value)
    THEN IF s.battle_result = "win" THEN "win"
         ELSE IF s.winner_team = "draw" THEN "draw"
         ELSE "loss"
    ELSE "incomplete"

ReplayInit ==
    /\ summary \in Summaries
    /\ player = NoInt
    /\ result = "unset"
    /\ platoons = Unset

\* replay.get_battle_result(player)
GetBattleResult ==
    /\ \E p \in OptPlayers :
         /\ player' = p
         /\ result' = get_battle_result(summary, p)
    /\ platoons' = Unset
    /\ UNCHANGED <<summary, clientVars, tankVars, dataVars, jsonVars, regionVars>>

\* replay.get_platoons(player)
GetPlatoons ==
    /\ \E p \in OptPlayers :
         /\ player' = p
         /\ platoons' = get_platoons(summary, p)
    /\ result' = "unset"
    /\ UNCHANGED <<summary, clientVars, tankVars, dataVars, jsonVars, regionVars>>

(***************************************************************************)
(*                  src/models.py: Region, WGtankStat                      *)
(***************************************************************************)

\* Bound of the tank-stat model: the small values 0..MaxSmall of a field.
MaxSmall == 3

\* Python's int is unbounded; account ids, vehicle ids and epochs of up to
\* 41 bits do not fit the checker's integers.  An int is the sequence of
\* its base-65536 digits, most significant first, with no leading zero
\* (zero is <<0>>).
Base == 16 * 16 * 16 * 16

RECURSIVE Norm(_)
Norm(s) == IF Len(s) > 1 /\ s[1] = 0 THEN Norm(Tail(s)) ELSE s

RECURSIVE ToBig(_)
ToBig(n) == IF n < Base THEN <<n>> ELSE ToBig(n \div Base) \o <<n % Base>>

Front(s) == SubSeq(s, 1, Len(s) - 1)

\* s * k + carry
RECURSIVE MulAddDigits(_, _, _)
MulAddDigits(s, k, carry) ==
    IF s = <<>> THEN (IF carry = 0 THEN <<>> ELSE <<carry>>)
    ELSE LET v == s[Len(s)] * k + carry
         IN  MulAddDigits(Front(s), k, v \div Base) \o <<v % Base>>

MulAdd(s, k, d) == Norm(MulAddDigits(s, k, d))

\* 2^k, and n - 1 for n > 0
Pow2Big(k) == <<2 ^ (k % 16)>> \o [i \in 1..(k \div 16) |-> 0]

RECURSIVE PredDigits(_)
PredDigits(s) ==
    IF s[Len(s)] > 0 THEN [s EXCEPT ![Len(s)] = @ - 1]
    ELSE PredDigits(Front(s)) \o <<Base - 1>>

PredBig(s) == Norm(PredDigits(s))

\* a < b and a >= b
RECURSIVE LtDigits(_, _)
LtDigits(a, b) ==
    IF a = <<>> THEN FALSE
    ELSE IF a[1] # b[1] THEN a[1] < b[1]
    ELSE LtDigits(Tail(a), Tail(b))

LtBig(a, b) == IF Len(a) # Len(b) THEN Len(a) < Len(b) ELSE LtDigits(a, b)
GeBig(a, b) == ~LtBig(a, b)

\* The values a field of the payload takes: the small ones, and for each
\* segment width of the id the greatest value that fits and the first that
\* does not.
FieldValues ==
    {ToBig(n) : n \in 0..MaxSmall}
        \cup {PredBig(Pow2Big(w)) : w \in {24, 32, 40}}
        \cup {Pow2Big(w) : w \in {24, 32, 40}}

\* str: the sequence of its characters.
HexChars == <<"0", "1", "2", "3", "4", "5", "6", "7",
              "8", "9", "a", "b", "c", "d", "e", "f">>

Zeros(n) == [i \in 1..n |-> "0"]

\* s.zfill(width), for s with no sign
zfill(s, width) == IF Len(s) >= width THEN s ELSE Zeros(width - Len(s)) \o s

\* The hexadecimal digits of a machine-sized n >= 0.
RECURSIVE HexOf(_)
HexOf(n) ==
    IF n < 16 THEN <<HexChars[n + 1]>>
    ELSE HexOf(n \div 16) \o <<HexChars[(n % 16) + 1]>>

RECURSIVE HexTail(_)
HexTail(s) == IF s = <<>> THEN <<>> ELSE zfill(HexOf(s[1]), 4) \o HexTail(Tail(s))

\* hex(n), for n >= 0
hex(n) == <<"0", "x">> \o HexOf(n[1]) \o HexTail(Tail(n))

\* s[2:]
From2(s) == SubSeq(s, 3, Len(s))

\* bson's ObjectId(str): the id of 12 bytes when the string is 24
\* hexadecimal digits, InvalidId otherwise.
IsHex(ch) == \E i \in DOMAIN HexChars : HexChars[i] = ch

ObjectId(s) ==
    IF Len(s) = 24 /\ \A i \in DOMAIN s : IsHex(s[i])
    THEN [raised |-> FALSE, value |-> [kind |-> "ObjectId", hex |-> s]]
    ELSE [raised |-> TRUE, value |-> None]

\* WGtankStat.mk_id(account_id, last_battle_time, tank_id), line 480.
Last(s, n) == SubSeq(s, Len(s) - n + 1, Len(s))

mk_id_truncating(account_id, last_battle_time, tank_id) ==
    ObjectId(Last(zfill(From2(hex(account_id)), 10), 10)
             \o Last(zfill(From2(hex(tank_id)), 6), 6)
             \o Last(zfill(From2(hex(last_battle_time)), 8), 8))

mk_id_signature_order(account_id, last_battle_time, tank_id) ==
    ObjectId(zfill(From2(hex(account_id)), 10)
             \o zfill(From2(hex(last_battle_time)), 8)
             \o zfill(From2(hex(tank_id)), 6))

mk_id(account_id, last_battle_time, tank_id) ==
    ObjectId(zfill(From2(hex(account_id)), 10)
             \o zfill(From2(hex(tank_id)), 6)
             \o zfill(From2(hex(last_battle_time)), 8))

\* Region.from_id(account_id), lines 40-55.  Python compares the int with
\* the float threshold exactly; each threshold is a whole number.
from_id_above_threshold(account_id) ==
    IF LtBig(MulAdd(ToBig(100000000), 31, 0), account_id) THEN "china"
    ELSE IF LtBig(MulAdd(ToBig(100000000), 20, 0), account_id) THEN "asia"
    ELSE IF LtBig(MulAdd(ToBig(100000000), 10, 0), account_id) THEN "com"
    ELSE IF LtBig(MulAdd(ToBig(100000000), 5, 0), account_id) THEN "eu"
    ELSE "ru"

from_id(account_id) ==
    IF GeBig(account_id, MulAdd(ToBig(100000000), 31, 0)) THEN "china"
    ELSE IF GeBig(account_id, MulAdd(ToBig(100000000), 20, 0)) THEN "asia"
    ELSE IF GeBig(account_id, MulAdd(ToBig(100000000), 10, 0)) THEN "com"
    ELSE IF GeBig(account_id, MulAdd(ToBig(100000000), 5, 0)) THEN "eu"
    ELSE "ru"

ValidationError == [kind |-> "ValidationError"]

\* WGtankStat.set_id, lines 483-492, the root validator that ends the
\* construction: the record, or the ValidationError its ValueError becomes.
set_id_positional(values) ==
    LET made == mk_id(values.account_id, values.tank_id, values.last_battle_time) IN
    IF values.id = None /\ made.raised THEN ValidationError
    ELSE [kind |-> "WGtankStat",
          id |-> IF values.id = None THEN made.value ELSE values.id,
          account_id |-> values.account_id,
          tank_id |-> values.tank_id,
          last_battle_time |-> values.last_battle_time,
          region |-> from_id(values.account_id)]

set_id(values) ==
    LET made == mk_id(values.account_id, values.last_battle_time, values.tank_id) IN
    IF values.id = None /\ made.raised THEN ValidationError
    ELSE [kind |-> "WGtankStat",
          id |-> IF values.id = None THEN made.value ELSE values.id,
          account_id |-> values.account_id,
          tank_id |-> values.tank_id,
          last_battle_time |-> values.last_battle_time,
          region |-> from_id(values.account_id)]

\* An ObjectId a payload brings along under _id, made elsewhere.
ForeignId == [kind |-> "ObjectId", hex |-> [i \in 1..24 |-> "e"]]

Payloads ==
    [id : {None, ForeignId},
     account_id : FieldValues, tank_id : FieldValues, last_battle_time : FieldValues]

TankInit ==
    /\ payload \in Payloads
    /\ oid = None
    /\ tankstat = None

\* WGtankStat.mk_id(account_id, last_battle_time, tank_id), called directly
MkId ==
    /\ oid = None
    /\ oid' = [kind |-> "mk_id",
               out |-> mk_id(payload.account_id, payload.last_battle_time, payload.tank_id)]
    /\ UNCHANGED <<payload, tankstat, clientVars, replayVars, dataVars, jsonVars, regionVars>>

\* WGtankStat(**payload)
NewTankStat ==
    /\ tankstat = None
    /\ tankstat' = set_id(payload)
    /\ UNCHANGED <<payload, oid, clientVars, replayVars, dataVars, jsonVars, regionVars>>

(***************************************************************************)
(*                 src/models.py: WoTBlitzReplayData                       *)
(***************************************************************************)

\* Optional[str]: a str is the sequence of its characters.
NoStr      == [some |-> FALSE, s |-> <<>>]
SomeStr(t) == [some |-> TRUE, s |-> t]

\* WoTBlitzReplayData._ViewUrlBase and _DLurlBase, lines 222-223.
ViewUrlBase ==
    <<"h", "t", "t", "p", "s", ":", "/", "/", "r", "e", "p", "l",
      "a", "y", "s", ".", "w", "o", "t", "i", "n", "s", "p", "e",
      "c", "t", "o", "r", ".", "c", "o", "m", "/", "e", "n", "/",
      "v", "i", "e", "w", "/">>

DLurlBase ==
    <<"h", "t", "t", "p", "s", ":", "/", "/", "r", "e", "p", "l",
      "a", "y", "s", ".", "w", "o", "t", "i", "n", "s", "p", "e",
      "c", "t", "o", "r", ".", "c", "o", "m", "/", "e", "n", "/",
      "d", "o", "w", "n", "l", "o", "a", "d", "/">>

\* Another well-formed URL, and a string that is no URL.
OtherUrlBase ==
    <<"h", "t", "t", "p", ":", "/", "/", "e", "x", "a", "m", "p",
      "l", "e", ".", "c", "o", "m", "/", "x", "/">>

NotAUrl == <<"n", "o", " ", "u", "r", "l">>

\* The ids of the payloads and assignments: plain ones, the empty string,
\* and one that holds a slash.
IdInputs == {<<"a">>, <<"b", "7">>, <<>>, <<"a", "/", "b">>}

\* The URLs of the payloads and assignments: canonical ones, a URL that
\* ends with its slash, a URL of another site, and a string that is no URL.
ViewInputs ==
    {ViewUrlBase \o <<"a">>, ViewUrlBase \o <<"c">>, ViewUrlBase,
     OtherUrlBase \o <<"d">>, NotAUrl}

DLInputs ==
    {DLurlBase \o <<"a">>, DLurlBase \o <<"b", "7">>, DLurlBase,
     OtherUrlBase \o <<"d">>, NotAUrl}

Opt(S) == {NoStr} \cup {SomeStr(t) : t \in S}

\* pydantic's HttpUrl: the string starts with the scheme http or https and
\* names a host.
StartsWith(t, prefix) ==
    Len(t) >= Len(prefix) /\ SubSeq(t, 1, Len(prefix)) = prefix

HttpUrl(t) ==
    \/ /\ StartsWith(t, <<"h", "t", "t", "p", "s", ":", "/", "/">>)
       /\ Len(t) > 8 /\ t[9] # "/"
    \/ /\ StartsWith(t, <<"h", "t", "t", "p", ":", "/", "/">>)
       /\ Len(t) > 7 /\ t[8] # "/"

\* str.split(sep): the list of the pieces between the separators.
RECURSIVE SplitFrom(_, _, _)
SplitFrom(piece, t, sep) ==
    IF t = <<>> THEN <<piece>>
    ELSE IF t[1] = sep THEN <<piece>> \o SplitFrom(<<>>, Tail(t), sep)
    ELSE SplitFrom(Append(piece, t[1]), Tail(t), sep)

split(t, sep) == SplitFrom(<<>>, t, sep)

\* list[-1:]
LastSlice(list) == SubSeq(list, Len(list), Len(list))

\* The field validation that precedes the root validator: a URL that is
\* given has to be an HttpUrl.
FieldsValid(values) ==
    /\ values.view_url.some => HttpUrl(values.view_url.s)
    /\ values.download_url.some => HttpUrl(values.download_url.s)

\* WoTBlitzReplayData.store_id, lines 232-253, on validated fields.
store_id_fill_missing(values) ==
    LET id == IF values.id.some THEN values.id.s
              ELSE IF values.view_url.some
              THEN LastSlice(split(values.view_url.s, "/"))[1]
              ELSE LastSlice(split(values.download_url.s, "/"))[1]
    IN  IF ~values.id.some /\ ~values.view_url.some /\ ~values.download_url.some
        THEN values
        ELSE [values EXCEPT
                !.id = SomeStr(id),
                !.view_url = IF @.some THEN @ ELSE SomeStr(ViewUrlBase \o id),
                !.download_url = IF @.some THEN @ ELSE SomeStr(DLurlBase \o id)]

store_id(values) ==
    LET id == IF values.id.some THEN values.id.s
              ELSE IF values.view_url.some
              THEN LastSlice(split(values.view_url.s, "/"))[1]
              ELSE LastSlice(split(values.download_url.s, "/"))[1]
    IN  IF ~values.id.some /\ ~values.view_url.some /\ ~values.download_url.some
        THEN values
        ELSE [values EXCEPT
                !.id = SomeStr(id),
                !.view_url = SomeStr(ViewUrlBase \o id),
                !.download_url = SomeStr(DLurlBase \o id)]

DataPayloads ==
    [kind : {"WoTBlitzReplayData"},
     id : Opt(IdInputs), view_url : Opt(ViewInputs), download_url : Opt(DLInputs)]

DataInit ==
    /\ rargs = None
    /\ rdata = None

\* WoTBlitzReplayData(id=..., view_url=..., download_url=..., summary=...)
NewReplayData ==
    /\ rdata = None
    /\ \E values \in DataPayloads :
         /\ rargs' = [kind |-> "new", values |-> values]
         /\ rdata' = IF FieldsValid(values) THEN store_id(values) ELSE ValidationError
    /\ UNCHANGED <<clientVars, replayVars, tankVars, jsonVars, regionVars>>

\* data.id = v, data.view_url = v, data.download_url = v: with
\* validate_assignment (line 227) the assigned field is validated and the
\* root validator runs on the new values, which then replace the object's;
\* a ValidationError leaves the object as it was.
Assigned(field, v) ==
    LET values == IF field = "id" THEN [rdata EXCEPT !.id = v]
                  ELSE IF field = "view_url" THEN [rdata EXCEPT !.view_url = v]
                  ELSE [rdata EXCEPT !.download_url = v]
    IN  IF field = "id" \/ ~v.some \/ HttpUrl(v.s) THEN store_id(values) ELSE rdata

SetId ==
    /\ rdata.kind = "WoTBlitzReplayData"
    /\ \E v \in Opt(IdInputs) :
         /\ rargs' = [kind |-> "set", field |-> "id", value |-> v]
         /\ rdata' = Assigned("id", v)
    /\ UNCHANGED <<clientVars, replayVars, tankVars, jsonVars, regionVars>>

SetViewUrl ==
    /\ rdata.kind = "WoTBlitzReplayData"
    /\ \E v \in Opt(ViewInputs) :
         /\ rargs' = [kind |-> "set", field |-> "view_url", value |-> v]
         /\ rdata' = Assigned("view_url", v)
    /\ UNCHANGED <<clientVars, replayVars, tankVars, jsonVars, regionVars>>

SetDownloadUrl ==
    /\ rdata.kind = "WoTBlitzReplayData"
    /\ \E v \in Opt(DLInputs) :
         /\ rargs' = [kind |-> "set", field |-> "download_url", value |-> v]
         /\ rdata' = Assigned("download_url", v)
    /\ UNCHANGED <<clientVars, replayVars, tankVars, jsonVars, regionVars>>

(***************************************************************************)
(*          src/models.py: WoTBlitzReplayJSON, its identifiers             *)
(***************************************************************************)

\* data.id = v on a WoTBlitzReplayData object: with validate_assignment
\* (line 227) the data object's own root validator runs on the new values.
setattr_id(d, v) == store_id([d EXCEPT !.id = v])

\* WoTBlitzReplayJSON.store_id, lines 272-284, on validated fields: a
\* missing top-level id is read from the data object, a top-level id that
\* is there is assigned to the data object's id.
WoTBlitzReplayJSON_store_id(values) ==
    IF ~values.id.some
    THEN [values EXCEPT !.id = values.data.id]
    ELSE [values EXCEPT !.data = setattr_id(values.data, values.id)]

\* WoTBlitzReplayJSON.get_id, lines 337-345.
get_id(r) == IF r.id.some THEN r.id ELSE r.data.id

\* The payloads of a replay record: a top-level id or none, and the
\* payload of the wrapped data.
JsonPayloads ==
    [kind : {"WoTBlitzReplayJSON"}, id : Opt(IdInputs), data : DataPayloads]

JsonInit ==
    /\ jargs = None
    /\ rjson = None

\* WoTBlitzReplayJSON(id=..., data={...}): the data field is validated
\* first (the construction of the WoTBlitzReplayData object, root validator
\* included), then the record's root validator runs; when the data is
\* invalid the construction fails.
NewReplayJSON ==
    /\ rjson = None
    /\ \E values \in JsonPayloads :
         /\ jargs' = [kind |-> "new", values |-> values]
         /\ rjson' = IF FieldsValid(values.data)
                     THEN WoTBlitzReplayJSON_store_id(
                              [values EXCEPT !.data = store_id(values.data)])
                     ELSE ValidationError
    /\ UNCHANGED <<clientVars, replayVars, tankVars, dataVars, regionVars>>

\* replay.id = v: with validate_assignment (line 268) the record's root
\* validator runs on the new values.
SetReplayId ==
    /\ rjson.kind = "WoTBlitzReplayJSON"
    /\ \E v \in Opt(IdInputs) :
         /\ jargs' = [kind |-> "set", field |-> "id", value |-> v]
         /\ rjson' = WoTBlitzReplayJSON_store_id([rjson EXCEPT !.id = v])
    /\ UNCHANGED <<clientVars, replayVars, tankVars, dataVars, regionVars>>

\* replay.data.id = v: an assignment on the wrapped data object; only the
\* data object's root validator runs, the record's store_id does not.
SetNestedId ==
    /\ rjson.kind = "WoTBlitzReplayJSON"
    /\ \E v \in Opt(IdInputs) :
         /\ jargs' = [kind |-> "set", field |-> "data.id", value |-> v]
         /\ rjson' = [rjson EXCEPT !.data = setattr_id(@, v)]
    /\ UNCHANGED <<clientVars, replayVars, tankVars, dataVars, regionVars>>

\* replay.get_id()
GetId ==
    /\ rjson.kind = "WoTBlitzReplayJSON"
    /\ jargs.kind # "get_id"
    /\ jargs' = [kind |-> "get_id", value |-> get_id(rjson)]
    /\ UNCHANGED <<rjson, clientVars, replayVars, tankVars, dataVars, regionVars>>

(***************************************************************************)
(*                     src/models.py: Region.from_id                       *)
(***************************************************************************)

\* Bound of the region model: how far below and above each threshold the
\* account ids go.
MaxNear == 5

\* class Region, lines 27-33.
Region == {"ru", "eu", "com", "asia", "china", "API"}

\* n - k, for n >= k
RECURSIVE MinusSmall(_, _)
MinusSmall(n, k) == IF k = 0 THEN n ELSE MinusSmall(PredBig(n), k - 1)

\* The ids from MaxNear below n to MaxNear above it, none negative.
Near(n) ==
    {MulAdd(n, 1, k) : k \in 0..MaxNear}
        \cup {MinusSmall(n, k) : k \in {j \in 1..MaxNear : GeBig(n, ToBig(j))}}

\* The account ids: around zero, around each threshold of from_id, and
\* the wide values of the tank-stat payloads.
AccountIds ==
    UNION {Near(MulAdd(ToBig(100000000), m, 0)) : m \in {0, 5, 10, 20, 31}}
        \cup FieldValues

RegionInit ==
    /\ account \in AccountIds
    /\ region = "unset"

\* Region.from_id(account)
FromId ==
    /\ region = "unset"
    /\ region' = from_id(account)
    /\ UNCHANGED <<account, clientVars, replayVars, tankVars, dataVars, jsonVars>>

\* The other components at rest.
ReplayIdle ==
    /\ summary = [battle_result |-> NoEnum, winner_team |-> NoEnum,
                  allies |-> <<>>, enemies |-> <<>>, details |-> <<>>]
    /\ player = NoInt /\ result = "unset" /\ platoons = Unset
TankIdle   == payload = None /\ oid = None /\ tankstat = None
DataIdle   == rargs = None /\ rdata = None
JsonIdle   == jargs = None /\ rjson = None
RegionIdle == account = <<0>> /\ region = "unset"
ClientIdle == ClientInit

(***************************************************************************)
(* The client's specification.                                             *)
(***************************************************************************)
Init == ClientInit /\ ReplayIdle /\ TankIdle /\ DataIdle /\ JsonIdle /\ RegionIdle

Next ==
    \E c \in Calls :
        \/ GetReplay(c)
        \/ PostReplayBegin(c)
        \/ PostReplayCheck(c)
        \/ PostReplayAttempt(c)
        \/ PostReplaySleep(c)

Spec == Init /\ [][Next]_vars

(***************************************************************************)
(* The specification of the replay queries.                                *)
(***************************************************************************)
InitReplay == ReplayInit /\ ClientIdle /\ TankIdle /\ DataIdle /\ JsonIdle /\ RegionIdle

NextReplay == GetBattleResult \/ GetPlatoons

SpecReplay == InitReplay /\ [][NextReplay]_vars

(***************************************************************************)
(* The specification of the tank statistics.                               *)
(***************************************************************************)
InitTank == TankInit /\ ClientIdle /\ ReplayIdle /\ DataIdle /\ JsonIdle /\ RegionIdle

NextTank == MkId \/ NewTankStat

SpecTank == InitTank /\ [][NextTank]_vars

(***************************************************************************)
(* The specification of the replay data object.                            *)
(***************************************************************************)
InitData == DataInit /\ ClientIdle /\ ReplayIdle /\ TankIdle /\ JsonIdle /\ RegionIdle

NextData == NewReplayData \/ SetId \/ SetViewUrl \/ SetDownloadUrl

SpecData == InitData /\ [][NextData]_vars

(***************************************************************************)
(* The specification of the replay record's identifiers.                   *)
(***************************************************************************)
InitJson == JsonInit /\ ClientIdle /\ ReplayIdle /\ TankIdle /\ DataIdle /\ RegionIdle

NextJson == NewReplayJSON \/ SetReplayId \/ SetNestedId \/ GetId

SpecJson == InitJson /\ [][NextJson]_vars

(***************************************************************************)
(* The specification of the region classification.                         *)
(***************************************************************************)
InitRegion == RegionInit /\ ClientIdle /\ ReplayIdle /\ TankIdle /\ DataIdle /\ JsonIdle

NextRegion == FromId

SpecRegion == InitRegion /\ [][NextRegion]_vars

\* The event loop resumes every coroutine that can run: a request is
\* answered or raises, a sleep returns.
FairSpec == Spec /\ \A c \in Calls : WF_vars(Running(c))

(***************************************************************************)
(*                     Properties of the client                            *)
(***************************************************************************)
InPostReplay(c) == pc[c] \in {"check", "post", "sleep", "done"}

\* An upload POST failed: it raised, its status was not 200, or its body
\* did not parse as a replay record.
FailedAttempt(out) ==
    \/ out.kind = "raise"
    \/ out.kind = "resp" /\ out.status # 200
    \/ out.kind = "resp" /\ out.status = 200 /\ from_str(out.body) = None

GoodAttempt(out) ==
    out.kind = "resp" /\ out.status = 200 /\ from_str(out.body) # None

\* C1: when the existence check of a post_replay call returned a record,
\* the call is over, it issued no upload POST, and it returned that very
\* record, which is a record the service holds.
C1_NoUploadWhenFound ==
    \A c \in Calls :
        (InPostReplay(c) /\ json_resp[c] # None)
            => /\ pc[c] = "done"
               /\ posts[c] = <<>>
               /\ ret[c] = json_resp[c]
               /\ ret[c] \in remote
               /\ ret[c].key = hexdigest(data[c])

C1_Witness ==
    \E c \in Calls :
        /\ pc[c] = "done" /\ json_resp[c] \in Records
        /\ ret[c] = json_resp[c] /\ posts[c] = <<>>

\* C2, its parts.  No call issues more than MAX_RETRIES upload POSTs, and a
\* good attempt (status 200, parseable body) ends the call with its record.
C2_Bounded ==
    \A c \in Calls :
        /\ Len(posts[c]) <= MAX_RETRIES
        /\ (last[c] # None /\ GoodAttempt(last[c]))
               => pc[c] = "done" /\ ret[c] = from_str(last[c].body)

\* An attempt follows another only when the earlier one failed.
C2_RetryOnlyAfterFailure ==
    \A c \in Calls :
        (Len(posts[c]) >= 1 /\ Len(posts'[c]) = Len(posts[c]) + 1)
            => FailedAttempt(last[c])

\* Every call that was started comes to its end.
C2_Terminates ==
    \A c \in Calls : (pc[c] \in {"check", "post", "sleep"}) ~> (pc[c] = "done")

\* C2: at most MAX_RETRIES = 3 upload attempts per call, a further attempt
\* only after a failed one, the first good attempt ends the call at once
\* with its record, and the call always terminates.
C2_BoundedRetry ==
    /\ []C2_Bounded
    /\ [][C2_RetryOnlyAfterFailure]_vars
    /\ C2_Terminates

C2_Witness ==
    \E c \in Calls :
        /\ pc[c] = "done" /\ Len(posts[c]) = 2
        /\ GoodAttempt(last[c]) /\ ret[c] = last[c].body

\* C3: no failure makes get_replay or post_replay raise; get_replay
\* returns None when the lookup raised or found nothing, and post_replay
\* returns None once MAX_RETRIES attempts have failed.
C3_FailuresYieldNone ==
    \A c \in Calls :
        /\ ~exc[c]
        /\ (pc[c] = "got" /\ (get_out[c].kind = "raise" \/ get_out[c].rec = None))
               => ret[c] = None
        /\ (pc[c] = "done" /\ Len(posts[c]) = MAX_RETRIES /\ FailedAttempt(last[c]))
               => ret[c] = None

C3_Witness ==
    \E c \in Calls : \E d \in Calls :
        /\ pc[c] = "done" /\ Len(posts[c]) = MAX_RETRIES
        /\ last[c].kind = "raise" /\ ret[c] = None /\ ~exc[c]
        /\ pc[d] = "got" /\ get_out[d].kind = "raise" /\ ret[d] = None /\ ~exc[d]

\* The upload POSTs and the stored records of the post_replay call that
\* runs, or ran last, for caller c.
KeysPosted(c) == {posts[c][i] : i \in DOMAIN posts[c]}
StoredBy(c)   == {r \in remote : data[c].bytes /\ r.by = N[c]}

\* C13: every upload POST of a post_replay call is keyed by the digest of
\* the call's data and so is every record an upload stores, hence the
\* uploads and the records of two calls on byte-identical data all carry
\* one key.  No lock orders two such calls: both can miss the existence
\* check and both upload, which can only leave duplicate records under
\* that one key.
C13_SameKey ==
    /\ \A c \in Calls :
          /\ KeysPosted(c) # {} => data[c].bytes
          /\ \A k \in KeysPosted(c) : k = [md5 |-> data[c].b]
          /\ \A r \in StoredBy(c) : r.key = [md5 |-> data[c].b]
    /\ \A c1, c2 \in Calls :
          (data[c1].bytes /\ data[c1] = data[c2])
             => /\ Cardinality(KeysPosted(c1) \cup KeysPosted(c2)) <= 1
                /\ Cardinality({r.key : r \in StoredBy(c1) \cup StoredBy(c2)}) <= 1

\* Two calls on the same bytes in flight at once with no record stored
\* (none ever was: nothing removes a record): each existence check found
\* no record, and each call has gone on to issue an upload POST under the
\* same key.
C13_Witness ==
    /\ data[1] = data[2] /\ data[1].bytes
    /\ remote = {}
    /\ json_resp[1] = None /\ json_resp[2] = None
    /\ pc[1] = "sleep" /\ pc[2] = "sleep"
    /\ Len(posts[1]) = 1 /\ Len(posts[2]) = 1
    /\ posts[1] = posts[2]

(***************************************************************************)
(*                 Properties of the replay queries                        *)
(***************************************************************************)
Absent_(p)   == ~p.some
InAllies(p)  == p.some /\ In(p.v, summary.allies)
InEnemies(p) == p.some /\ In(p.v, summary.enemies)
DisjointRosters == \A q \in Players : ~(In(q, summary.allies) /\ In(q, summary.enemies))

\* C4 as the specification states it: any raw battle_result other than
\* incomplete, with winner_team draw, gives draw to the ally perspective and
\* to the enemy perspective.
C4_DrawForAnyRaw ==
    (/\ result # "unset"
     /\ summary.battle_result # "incomplete"
     /\ summary.winner_team = "draw"
     /\ (Absent_(player) \/ InAllies(player) \/ InEnemies(player)))
        => result = "draw"

\* C4, amended: a raw battle_result that is neither incomplete nor win, with
\* winner_team draw, gives draw to the ally perspective and to the enemy
\* perspective; a raw win gives win to the allies and loss to the enemies
\* whatever winner_team says.
C4_DrawUnlessRawWin ==
    /\ (/\ result # "unset"
        /\ summary.battle_result \notin {"incomplete", "win"}
        /\ summary.winner_team = "draw"
        /\ (Absent_(player) \/ InAllies(player) \/ InEnemies(player)))
           => result = "draw"
    /\ (/\ result # "unset"
        /\ summary.battle_result = "win"
        /\ summary.winner_team = "draw")
           => /\ (Absent_(player) \/ InAllies(player)) => result = "win"
              /\ InEnemies(player) => result = "loss"

C4_Witness ==
    /\ result = "draw" /\ InEnemies(player)
    /\ summary.battle_result = "loss" /\ summary.winner_team = "draw"

\* The table of the specification's resultFor(p).
C5_Table(s, p) ==
    IF s.battle_result = "incomplete" THEN "incomplete"
    ELSE IF p.some /\ In(p.v, s.enemies)
    THEN (IF s.battle_result = "win" THEN "loss"
          ELSE IF s.winner_team = "draw" THEN "draw" ELSE "win")
    ELSE IF ~p.some \/ In(p.v, s.allies)
    THEN (IF s.battle_result = "win" THEN "win"
          ELSE IF s.winner_team = "draw" THEN "draw" ELSE "loss")
    ELSE "incomplete"

\* C5: for every raw battle_result, winner_team and perspective (absent, in
\* allies, in enemies, in neither roster; rosters disjoint)
\* get_battle_result follows the table; raw win gives win to the ally side
\* and loss to the enemy side, raw not_win with winner_team one gives loss
\* to the ally side and win to the enemy side.
C5_ResultTable ==
    (result # "unset" /\ DisjointRosters)
        => /\ result = C5_Table(summary, player)
           /\ summary.battle_result = "win"
                 => /\ (Absent_(player) \/ InAllies(player)) => result = "win"
                    /\ InEnemies(player) => result = "loss"
           /\ (summary.battle_result = "not_win" /\ summary.winner_team = "one")
                 => /\ (Absent_(player) \/ InAllies(player)) => result = "loss"
                    /\ InEnemies(player) => result = "win"
           /\ summary.battle_result = "incomplete" => result = "incomplete"

C5_Witness ==
    /\ result = "win" /\ InEnemies(player)
    /\ summary.battle_result = "not_win" /\ summary.winner_team = "one"

\* The account ids a grouping holds.
Grouped(dict) == UNION {{dict[k][i] : i \in DOMAIN dict[k]} : k \in DOMAIN dict}

\* C6: get_platoons groups only rows whose squad_index is greater than 0,
\* and a row whose dbid is in neither roster is in neither grouping (and
\* raises no error).
C6_UnknownRowsSkipped ==
    platoons.kind = "platoons"
        => LET all == Grouped(platoons.allied) \cup Grouped(platoons.enemy) IN
           /\ \A k \in DOMAIN platoons.allied \cup DOMAIN platoons.enemy : k > 0
           /\ \A q \in all :
                 \E i \in DOMAIN summary.details :
                    /\ summary.details[i].dbid = q
                    /\ summary.details[i].squad_index.some
                    /\ summary.details[i].squad_index.v > 0
           /\ \A i \in DOMAIN summary.details :
                 (/\ ~In(summary.details[i].dbid, summary.allies)
                  /\ ~In(summary.details[i].dbid, summary.enemies))
                     => summary.details[i].dbid \notin all

\* What the code does hold to: only rows with squad_index > 0 are grouped,
\* each under its index, allies of the perspective in the allied grouping
\* and every other such row, known or not, in the enemy grouping.
C6_CodeGrouping ==
    platoons.kind = "platoons"
        => \A i \in DOMAIN summary.details :
             LET d == summary.details[i]
                 mine == get_allies(summary, player).value
                 grouped == d.squad_index.some /\ d.squad_index.v > 0
             IN  /\ (grouped /\ In(d.dbid, mine))
                       <=> (d.squad_index.v \in DOMAIN platoons.allied
                            /\ In(d.dbid, platoons.allied[d.squad_index.v]))
                 /\ (grouped /\ ~In(d.dbid, mine))
                       <=> (d.squad_index.v \in DOMAIN platoons.enemy
                            /\ In(d.dbid, platoons.enemy[d.squad_index.v]))

(***************************************************************************)
(*                  Properties of the tank statistics                      *)
(***************************************************************************)
\* The value of a string of hexadecimal digits.
HexVal(ch) == CHOOSE d \in 0..15 : HexChars[d + 1] = ch

RECURSIVE ParseHexFrom(_, _)
ParseHexFrom(acc, s) ==
    IF s = <<>> THEN acc
    ELSE ParseHexFrom(MulAdd(acc, 16, HexVal(s[1])), Tail(s))

ParseHex(s) == ParseHexFrom(<<0>>, s)

\* h is 24 hexadecimal digits whose segments of 10, 6 and 8 digits are
\* account_id, tank_id and last_battle_time.
DecodesTo(h, account_id, tank_id, last_battle_time) ==
    /\ Len(h) = 24
    /\ \A i \in DOMAIN h : IsHex(h[i])
    /\ ParseHex(SubSeq(h, 1, 10)) = account_id
    /\ ParseHex(SubSeq(h, 11, 16)) = tank_id
    /\ ParseHex(SubSeq(h, 17, 24)) = last_battle_time

\* Every field of the payload fits its segment of the id.
FitsWidths(v) ==
    /\ LtBig(v.account_id, Pow2Big(40))
    /\ LtBig(v.tank_id, Pow2Big(24))
    /\ LtBig(v.last_battle_time, Pow2Big(32))

\* C7 as the specification states it: every constructed record's id is the
\* packing of its own (account_id, tank_id, last_battle_time), whatever id
\* the payload supplied.
C7_IdAlwaysDerived ==
    tankstat.kind = "WGtankStat"
        => DecodesTo(tankstat.id.hex, tankstat.account_id, tankstat.tank_id,
                     tankstat.last_battle_time)

\* C7, amended: a record constructed from a payload that supplies no id has
\* the id mk_id makes of its own fields (so two such records with the same
\* triple have the same id); an id the payload supplies is kept as it is.
C7_IdDerivedUnlessSupplied ==
    tankstat.kind = "WGtankStat"
        => /\ tankstat.account_id = payload.account_id
           /\ tankstat.tank_id = payload.tank_id
           /\ tankstat.last_battle_time = payload.last_battle_time
           /\ IF payload.id = None
              THEN DecodesTo(tankstat.id.hex, tankstat.account_id, tankstat.tank_id,
                             tankstat.last_battle_time)
              ELSE tankstat.id = payload.id

C7_Witness ==
    /\ tankstat.kind = "WGtankStat" /\ payload.id = None
    /\ payload.account_id = ToBig(1) /\ payload.tank_id = ToBig(2)
    /\ payload.last_battle_time = ToBig(3)
    /\ tankstat.id.hex = Zeros(9) \o <<"1">> \o Zeros(5) \o <<"2">> \o Zeros(7) \o <<"3">>

\* C8: for a triple within the widths (40, 24 and 32 bits) mk_id yields 24
\* hexadecimal digits, account_id in the first 10, tank_id in the next 6,
\* last_battle_time in the last 8, each zero-padded on the left, and the
\* segments give back the triple exactly.
C8_PackRoundTrip ==
    (oid # None /\ FitsWidths(payload))
        => /\ ~oid.out.raised
           /\ DecodesTo(oid.out.value.hex, payload.account_id, payload.tank_id,
                        payload.last_battle_time)
           /\ (/\ payload.account_id = ToBig(1) /\ payload.tank_id = ToBig(2)
               /\ payload.last_battle_time = ToBig(3))
                 => oid.out.value.hex =
                       Zeros(9) \o <<"1">> \o Zeros(5) \o <<"2">> \o Zeros(7) \o <<"3">>

C8_Witness ==
    /\ oid # None /\ ~oid.out.raised
    /\ payload.account_id = PredBig(Pow2Big(40))
    /\ payload.tank_id = PredBig(Pow2Big(24))
    /\ payload.last_battle_time = PredBig(Pow2Big(32))
    /\ oid.out.value.hex = [i \in 1..24 |-> "f"]

\* C9 as the specification states it: when a field exceeds its width, mk_id
\* fails and the construction of the record fails.
C9_OverflowAlwaysFails ==
    ~FitsWidths(payload)
        => /\ oid # None => oid.out.raised
           /\ tankstat # None => tankstat = ValidationError

\* C9, amended: when a field exceeds its width mk_id fails, and so does the
\* construction of a record from a payload that supplies no id; when the
\* payload supplies an id the construction succeeds and keeps that id.
\* Every id mk_id does produce gives back its triple exactly: none is made
\* by truncating a field or by letting it spill into the next segment.
C9_OverflowFailsUnlessIdSupplied ==
    /\ ~FitsWidths(payload)
          => /\ oid # None => oid.out.raised
             /\ (tankstat # None /\ payload.id = None) => tankstat = ValidationError
             /\ (tankstat # None /\ payload.id # None)
                   => tankstat.kind = "WGtankStat" /\ tankstat.id = payload.id
    /\ (oid # None /\ ~oid.out.raised)
          => /\ FitsWidths(payload)
             /\ DecodesTo(oid.out.value.hex, payload.account_id, payload.tank_id,
                          payload.last_battle_time)

C9_Witness ==
    /\ payload.account_id = Pow2Big(40) /\ payload.id = None
    /\ FitsWidths([payload EXCEPT !.account_id = <<0>>])
    /\ oid # None /\ oid.out.raised
    /\ tankstat = ValidationError

(***************************************************************************)
(*                Properties of the replay data object                     *)
(***************************************************************************)
\* What follows the last slash of t (all of t when it has none).
TrailingSegment(t) ==
    LET cut == {i \in DOMAIN t : t[i] = "/"} IN
    IF cut = {} THEN t
    ELSE SubSeq(t, (CHOOSE i \in cut : \A j \in cut : j <= i) + 1, Len(t))

Unresolved(d) == ~d.id.some /\ ~d.view_url.some /\ ~d.download_url.some

Canonical(d) ==
    /\ d.id.some
    /\ d.view_url = SomeStr(ViewUrlBase \o d.id.s)
    /\ d.download_url = SomeStr(DLurlBase \o d.id.s)

\* C10: after construction and after every later assignment to id,
\* view_url or download_url, either the object has none of the three (no
\* source was supplied, and the construction succeeded), or view_url and
\* download_url are the canonical templates followed by id.  Constructed
\* from a view_url alone or a download_url alone, id is that URL's
\* trailing path segment; constructed from an id alone, both URLs are
\* back-filled from it.
C10_IdAndUrlsAgree ==
    /\ rdata.kind = "WoTBlitzReplayData" => (Unresolved(rdata) \/ Canonical(rdata))
    /\ rargs.kind = "new" =>
         LET a == rargs.values IN
         /\ Unresolved(a) => (rdata.kind = "WoTBlitzReplayData" /\ Unresolved(rdata))
         /\ (rdata.kind = "WoTBlitzReplayData" /\ ~Unresolved(a)) => Canonical(rdata)
         /\ (a.view_url.some /\ HttpUrl(a.view_url.s) /\ ~a.id.some /\ ~a.download_url.some)
               => /\ rdata.kind = "WoTBlitzReplayData"
                  /\ rdata.id = SomeStr(TrailingSegment(a.view_url.s))
         /\ (a.download_url.some /\ HttpUrl(a.download_url.s) /\ ~a.id.some /\ ~a.view_url.some)
               => /\ rdata.kind = "WoTBlitzReplayData"
                  /\ rdata.id = SomeStr(TrailingSegment(a.download_url.s))
         /\ (a.id.some /\ ~a.view_url.some /\ ~a.download_url.some)
               => /\ rdata.kind = "WoTBlitzReplayData"
                  /\ rdata.id = a.id
                  /\ Canonical(rdata)

C10_Witness ==
    /\ rargs.kind = "new"
    /\ rargs.values.view_url = SomeStr(ViewUrlBase \o <<"c">>)
    /\ ~rargs.values.id.some /\ ~rargs.values.download_url.some
    /\ rdata.kind = "WoTBlitzReplayData"
    /\ rdata.id = SomeStr(<<"c">>)
    /\ rdata.download_url = SomeStr(DLurlBase \o <<"c">>)

(***************************************************************************)
(*             Properties of the replay record's identifiers               *)
(***************************************************************************)
\* C11: after the construction of a replay record and after every later
\* assignment to its top-level id or to the id of its wrapped data, the
\* top-level id equals the nested id.
C11_IdsAgree ==
    rjson.kind = "WoTBlitzReplayJSON" => rjson.id = rjson.data.id

\* What the code does hold to: the two ids agree after the construction
\* and after an assignment to the top-level id; an assignment to the nested
\* id changes the nested id alone, and get_id then still answers with the
\* top-level id when there is one.
C11_CodeIdsAgree ==
    /\ []((rjson.kind = "WoTBlitzReplayJSON" /\ jargs.kind = "new")
            => rjson.id = rjson.data.id)
    /\ []((rjson.kind = "WoTBlitzReplayJSON" /\ jargs.kind = "set" /\ jargs.field = "id")
            => rjson.id = rjson.data.id)
    /\ [][SetNestedId => /\ rjson'.id = rjson.id
                         /\ jargs'.value.some => rjson'.data.id = jargs'.value]_vars

\* A record whose nested id was assigned and differs from the top-level id.
C11_StaleTopLevelId ==
    /\ rjson.kind = "WoTBlitzReplayJSON"
    /\ jargs.kind = "set" /\ jargs.field = "data.id"
    /\ rjson.id = SomeStr(<<"a">>)
    /\ rjson.data.id = SomeStr(<<"b", "7">>)
    /\ rjson.data.view_url = SomeStr(ViewUrlBase \o <<"b", "7">>)

(***************************************************************************)
(*                Properties of the region classification                  *)
(***************************************************************************)
\* The int a sequence of decimal digits writes.
RECURSIVE DecFrom(_, _)
DecFrom(acc, ds) ==
    IF ds = <<>> THEN acc ELSE DecFrom(MulAdd(acc, 10, ds[1]), Tail(ds))

Dec(ds) == DecFrom(<<0>>, ds)

\* lo <= n < hi
Within(n, lo, hi) == GeBig(n, lo) /\ LtBig(n, hi)

\* C12: for every non-negative account id Region.from_id returns the one
\* region whose bucket holds the id: china from 3,100,000,000, asia from
\* 2,000,000,000 up to there, com from 1,000,000,000, eu from 500,000,000,
\* ru below that; the buckets leave no gap and do not overlap, and API is
\* never returned.
C12_Buckets ==
    region # "unset"
        => LET t31 == Dec(<<3, 1, 0, 0, 0, 0, 0, 0, 0, 0>>)
               t20 == Dec(<<2, 0, 0, 0, 0, 0, 0, 0, 0, 0>>)
               t10 == Dec(<<1, 0, 0, 0, 0, 0, 0, 0, 0, 0>>)
               t5  == Dec(<<5, 0, 0, 0, 0, 0, 0, 0, 0>>)
           IN  /\ region \in Region \ {"API"}
               /\ region = "china" <=> GeBig(account, t31)
               /\ region = "asia"  <=> Within(account, t20, t31)
               /\ region = "com"   <=> Within(account, t10, t20)
               /\ region = "eu"    <=> Within(account, t5, t10)
               /\ region = "ru"    <=> LtBig(account, t5)

C12_Witness ==
    /\ account = Dec(<<3, 1, 0, 0, 0, 0, 0, 0, 0, 0>>)
    /\ region = "china"
=============================================================================
